---- MODULE Spec2Model ----
(***************************************************************************)
(* Model of the sanctum token-ratio crates: Ratio, Floor / Ceil            *)
(* application and reversal, and the Fee layer built on them.              *)
(*                                                                         *)
(* Integer widths are scaled down.  The source instantiates every impl for *)
(* the sixteen pairs over u8, u16, u32, u64; the instantiations differ     *)
(* only in the range of n and d and in the widened types Max and Ext.  The *)
(* model keeps the four pairs over {u32, u64}, with u64 twice as wide as   *)
(* u32 and u128 twice as wide as u64, so that every widening relation of   *)
(* the source (u64 * u64 fits u128, Ext(u32, u32) = u64, ...) is kept.     *)
(***************************************************************************)
EXTENDS Integers, Sequences, FiniteSets, TLC

\* largest value of the (scaled) u32
U32_MAX == 3
\* u64 is twice as wide as u32, u128 twice as wide as u64
U64_MAX == (U32_MAX + 1) * (U32_MAX + 1) - 1
U128_MAX == (U64_MAX + 1) * (U64_MAX + 1) - 1

Types == {"u32", "u64"}

TypeMax(T) == CASE T = "u32" -> U32_MAX
                [] T = "u64" -> U64_MAX
                [] T = "u128" -> U128_MAX

\* `v as T`: truncating cast (the identity when T is at least as wide)
as_(v, T) == v % (TypeMax(T) + 1)

U64 == 0..U64_MAX

\* Option<T>
None == << >>
Some(v) == << v >>
is_some(o) == Len(o) = 1
is_none(o) == Len(o) = 0
unwrap(o) == o[1]

\* RangeInclusive<u64>: start..=end
RangeInclusive(lo, hi) == [start |-> lo, end |-> hi]
contains(rg, x) == rg.start <= x /\ x <= rg.end

\* Ratio<N, D> { n, d }
Ratio(tn, td, n, d) == [tn |-> tn, td |-> td, n |-> n, d |-> d]

Ratios == UNION {{Ratio(tn, td, n, d) : n \in 0..TypeMax(tn), d \in 0..TypeMax(td)} :
                   tn \in Types, td \in Types}

\* ArithTypes::Max of Ratio<N, D>
ArithMax(tn, td) == IF TypeMax(tn) >= TypeMax(td) THEN tn ELSE td

Ratio_ZERO(tn, td) == Ratio(tn, td, 0, 0)
Ratio_ONE(tn, td) == Ratio(tn, td, 1, 1)

Ratio_is_zero(self) == self.n = 0 \/ self.d = 0

Ratio_is_one(self) ==
    LET Max == ArithMax(self.tn, self.td)
    IN  ~Ratio_is_zero(self) /\ as_(self.n, Max) = as_(self.d, Max)

\* an Ext no wider than Max
ArithExt_not_widened(tn, td) == ArithMax(tn, td)

\* ArithTypes::Ext of Ratio<N, D>: twice as wide as Max
ArithExt(tn, td) == IF ArithMax(tn, td) = "u32" THEN "u64" ELSE "u128"

\* const_cmp without the early returns for zero ratios
Ratio_const_cmp_no_zero_case(self, other) ==
    LET Ext == ArithExt(self.tn, self.td)
        mul == IF Ext = "u64" THEN "mul64" ELSE "mul"
        lhs == as_(as_(self.n, Ext) * as_(other.d, Ext), Ext)
        rhs == as_(as_(other.n, Ext) * as_(self.d, Ext), Ext)
    IN  [ret |-> IF lhs = rhs THEN "Equal"
                 ELSE IF lhs < rhs THEN "Less" ELSE "Greater",
         arith |-> {<<mul, as_(self.n, Ext), as_(other.d, Ext)>>,
                    <<mul, as_(other.n, Ext), as_(self.d, Ext)>>}]

\* Ratio::const_cmp: an Ordering, and the unchecked products evaluated in Ext
Ratio_const_cmp(self, other) ==
    IF Ratio_is_zero(self) /\ Ratio_is_zero(other)
    THEN [ret |-> "Equal", arith |-> {}]
    ELSE IF Ratio_is_zero(self)
    THEN [ret |-> "Less", arith |-> {}]
    ELSE IF Ratio_is_zero(other)
    THEN [ret |-> "Greater", arith |-> {}]
    ELSE LET Ext == ArithExt(self.tn, self.td)
             mul == IF Ext = "u64" THEN "mul64" ELSE "mul"
             lhs == as_(as_(self.n, Ext) * as_(other.d, Ext), Ext)
             rhs == as_(as_(other.n, Ext) * as_(self.d, Ext), Ext)
         IN  [ret |-> IF lhs = rhs THEN "Equal"
                      ELSE IF lhs < rhs THEN "Less" ELSE "Greater",
              arith |-> {<<mul, as_(self.n, Ext), as_(other.d, Ext)>>,
                         <<mul, as_(other.n, Ext), as_(self.d, Ext)>>}]

\* PartialEq::eq
Ratio_eq(self, rhs) == Ratio_const_cmp(self, rhs).ret = "Equal"

\* gcd_u32 / gcd_u64
RECURSIVE gcd(_, _)
gcd(a, b) == IF b > 0 THEN gcd(b, a % b) ELSE a

\* the unchecked a % b that gcd(a, b) and its recursive calls evaluate
RECURSIVE gcd_arith(_, _)
gcd_arith(a, b) ==
    IF b > 0 THEN {<<"div", a, b>>} \cup gcd_arith(b, a % b) ELSE {}

\* lowest_form dividing only the denominator by the gcd
Ratio_lowest_form_n_unreduced(self) ==
    LET Max == ArithMax(self.tn, self.td)
    IN  IF Ratio_is_zero(self)
        THEN [ret |-> Ratio_ZERO(Max, Max), arith |-> {}]
        ELSE LET n == as_(self.n, Max)
                 d == as_(self.d, Max)
                 g == gcd(d, n)
             IN  [ret |-> Ratio(Max, Max, n, d \div g),
                  arith |-> gcd_arith(d, n) \cup {<<"div", d, g>>}]

\* Ratio::lowest_form: ret is the returned Ratio<Max, Max>, arith the
\* unchecked % of the gcd and the two divisions by it
Ratio_lowest_form(self) ==
    LET Max == ArithMax(self.tn, self.td)
    IN  IF Ratio_is_zero(self)
        THEN [ret |-> Ratio_ZERO(Max, Max), arith |-> {}]
        ELSE LET n == as_(self.n, Max)
                 d == as_(self.d, Max)
                 g == gcd(d, n)
             IN  [ret |-> Ratio(Max, Max, n \div g, d \div g),
                  arith |-> gcd_arith(d, n) \cup
                            {<<"div", n, g>>, <<"div", d, g>>}]

\* Hash::hash writing n and d as given
Ratio_hash_raw(self) == [ret |-> <<self.n, self.d>>, arith |-> {}]

\* Hash::hash: ret is what is written to the hasher, in order
Ratio_hash(self) ==
    LET lf == Ratio_lowest_form(self)
    IN  [ret |-> <<lf.ret.n, lf.ret.d>>, arith |-> lf.arith]

\* the wrappers Floor(R), Ceil(R) and Fee(D); a bare ratio is Bare(R)
Bare(r) == [ty |-> "Ratio", inner |-> r]
Floor(r) == [ty |-> "Floor", inner |-> r]
Ceil(r) == [ty |-> "Ceil", inner |-> r]
Fee(D) == [ty |-> "Fee", inner |-> D]

\* unchecked u128 arithmetic wraps around
wrapping(v) == v % (U128_MAX + 1)

\* u128::div_ceil
div_ceil(a, b) == (a \div b) + (IF a % b > 0 THEN 1 ELSE 0)

\* u128::saturating_sub
saturating_sub(a, b) == IF a < b THEN 0 ELSE a - b

u128_to_u64_checked(x) ==
    IF x > as_(U64_MAX, "u128") THEN None ELSE Some(as_(x, "u64"))

\* An operation of the unchecked arithmetic is recorded as <<kind, a, b>>;
\* it is out of range when its exact result is not a value of its type
\* (u128, or u64 for mul64 and add64) or when it divides by 0.  A debug
\* build panics on such an operation, a release build wraps around.
OutOfRange(t) ==
    CASE t[1] = "mul" -> t[2] * t[3] > U128_MAX
      [] t[1] = "add" -> t[2] + t[3] > U128_MAX
      [] t[1] = "sub" -> t[2] < t[3]
      [] t[1] = "div" -> t[3] = 0
      [] t[1] = "mul64" -> t[2] * t[3] > U64_MAX
      [] t[1] = "add64" -> t[2] + t[3] > U64_MAX

\* Floor::apply with the product taken in u64 instead of u128
Floor_apply_narrow_mul(self, amount) ==
    IF Ratio_is_zero(self.inner)
    THEN [ret |-> Some(0), arith |-> {}]
    ELSE LET d == as_(self.inner.d, "u128")
             n == as_(self.inner.n, "u128")
             x == as_(amount, "u128")
             xn == as_(x * n, "u64")
             res == xn \div d
         IN  [ret |-> u128_to_u64_checked(res),
              arith |-> {<<"mul", x, n>>, <<"div", xn, d>>}]

\* Floor<Ratio<N, D>>::apply.  ret is the returned Option<u64>, arith the
\* unchecked arithmetic the call evaluated.
Floor_apply(self, amount) ==
    IF Ratio_is_zero(self.inner)
    THEN [ret |-> Some(0), arith |-> {}]
    ELSE LET d == as_(self.inner.d, "u128")
             n == as_(self.inner.n, "u128")
             x == as_(amount, "u128")
             xn == wrapping(x * n)
             res == xn \div d
         IN  [ret |-> u128_to_u64_checked(res),
              arith |-> {<<"mul", x, n>>, <<"div", xn, d>>}]

\* Ceil::apply dividing with `/` instead of div_ceil
Ceil_apply_floor_div(self, amount) ==
    IF Ratio_is_zero(self.inner)
    THEN [ret |-> Some(0), arith |-> {}]
    ELSE LET d == as_(self.inner.d, "u128")
             n == as_(self.inner.n, "u128")
             x == as_(amount, "u128")
             xn == wrapping(x * n)
             res == xn \div d
         IN  [ret |-> u128_to_u64_checked(res),
              arith |-> {<<"mul", x, n>>, <<"div", xn, d>>}]

\* Ceil::apply narrowing the quotient with `as u64` instead of the checked
\* conversion
Ceil_apply_unchecked_cast(self, amount) ==
    IF Ratio_is_zero(self.inner)
    THEN [ret |-> Some(0), arith |-> {}]
    ELSE LET d == as_(self.inner.d, "u128")
             n == as_(self.inner.n, "u128")
             x == as_(amount, "u128")
             xn == wrapping(x * n)
             res == div_ceil(xn, d)
         IN  [ret |-> Some(as_(res, "u64")),
              arith |-> {<<"mul", x, n>>, <<"div", xn, d>>}]

\* Ceil<Ratio<N, D>>::apply
Ceil_apply(self, amount) ==
    IF Ratio_is_zero(self.inner)
    THEN [ret |-> Some(0), arith |-> {}]
    ELSE LET d == as_(self.inner.d, "u128")
             n == as_(self.inner.n, "u128")
             x == as_(amount, "u128")
             xn == wrapping(x * n)
             res == div_ceil(xn, d)
         IN  [ret |-> u128_to_u64_checked(res),
              arith |-> {<<"mul", x, n>>, <<"div", xn, d>>}]

\* Floor::reverse keeping the exclusive upper bound when (dy + d) % n = 0
Floor_reverse_no_excl(self, amt_after_apply) ==
    IF Ratio_is_zero(self.inner)
    THEN [ret |-> IF amt_after_apply = 0
                  THEN Some(RangeInclusive(0, U64_MAX))
                  ELSE None,
          arith |-> {}]
    ELSE LET d == as_(self.inner.d, "u128")
             n == as_(self.inner.n, "u128")
             y == as_(amt_after_apply, "u128")
             dy == wrapping(d * y)
             min128 == div_ceil(dy, n)
             min == u128_to_u64_checked(min128)
             dy_plus_d == wrapping(dy + d)
             max0 == dy_plus_d \div n
             rem == dy_plus_d % n
             max128 == max0
             max == IF is_none(u128_to_u64_checked(max128))
                    THEN U64_MAX
                    ELSE unwrap(u128_to_u64_checked(max128))
         IN  IF is_none(min)
             THEN [ret |-> None,
                   arith |-> {<<"mul", d, y>>, <<"div", dy, n>>}]
             ELSE [ret |-> Some(RangeInclusive(unwrap(min), max)),
                   arith |-> {<<"mul", d, y>>, <<"div", dy, n>>,
                              <<"add", dy, d>>, <<"div", dy_plus_d, n>>}]

\* Floor::reverse failing, instead of saturating, when max exceeds u64::MAX
Floor_reverse_max_fails(self, amt_after_apply) ==
    IF Ratio_is_zero(self.inner)
    THEN [ret |-> IF amt_after_apply = 0
                  THEN Some(RangeInclusive(0, U64_MAX))
                  ELSE None,
          arith |-> {}]
    ELSE LET d == as_(self.inner.d, "u128")
             n == as_(self.inner.n, "u128")
             y == as_(amt_after_apply, "u128")
             dy == wrapping(d * y)
             min128 == div_ceil(dy, n)
             min == u128_to_u64_checked(min128)
             dy_plus_d == wrapping(dy + d)
             max0 == dy_plus_d \div n
             rem == dy_plus_d % n
             max128 == IF rem = 0 THEN saturating_sub(max0, 1) ELSE max0
             max == IF is_none(u128_to_u64_checked(max128))
                    THEN U64_MAX
                    ELSE unwrap(u128_to_u64_checked(max128))
         IN  IF is_none(min) \/ is_none(u128_to_u64_checked(max128))
             THEN [ret |-> None,
                   arith |-> {<<"mul", d, y>>, <<"div", dy, n>>}]
             ELSE [ret |-> Some(RangeInclusive(unwrap(min), max)),
                   arith |-> {<<"mul", d, y>>, <<"div", dy, n>>,
                              <<"add", dy, d>>, <<"div", dy_plus_d, n>>}]

\* Floor::reverse treating the lower bound as exclusive: dy / n + 1
Floor_reverse_min_excl(self, amt_after_apply) ==
    IF Ratio_is_zero(self.inner)
    THEN [ret |-> IF amt_after_apply = 0
                  THEN Some(RangeInclusive(0, U64_MAX))
                  ELSE None,
          arith |-> {}]
    ELSE LET d == as_(self.inner.d, "u128")
             n == as_(self.inner.n, "u128")
             y == as_(amt_after_apply, "u128")
             dy == wrapping(d * y)
             min128 == (dy \div n) + 1
             min == u128_to_u64_checked(min128)
             dy_plus_d == wrapping(dy + d)
             max0 == dy_plus_d \div n
             rem == dy_plus_d % n
             max128 == IF rem = 0 THEN saturating_sub(max0, 1) ELSE max0
             max == IF is_none(u128_to_u64_checked(max128))
                    THEN U64_MAX
                    ELSE unwrap(u128_to_u64_checked(max128))
         IN  IF is_none(min)
             THEN [ret |-> None,
                   arith |-> {<<"mul", d, y>>, <<"div", dy, n>>}]
             ELSE [ret |-> Some(RangeInclusive(unwrap(min), max)),
                   arith |-> {<<"mul", d, y>>, <<"div", dy, n>>,
                              <<"add", dy, d>>, <<"div", dy_plus_d, n>>}]

\* Floor::reverse with the minimum rounded down instead of up
Floor_reverse_min_floor(self, amt_after_apply) ==
    IF Ratio_is_zero(self.inner)
    THEN [ret |-> IF amt_after_apply = 0
                  THEN Some(RangeInclusive(0, U64_MAX))
                  ELSE None,
          arith |-> {}]
    ELSE LET d == as_(self.inner.d, "u128")
             n == as_(self.inner.n, "u128")
             y == as_(amt_after_apply, "u128")
             dy == wrapping(d * y)
             min128 == dy \div n
             min == u128_to_u64_checked(min128)
             dy_plus_d == wrapping(dy + d)
             max0 == dy_plus_d \div n
             rem == dy_plus_d % n
             max128 == IF rem = 0 THEN saturating_sub(max0, 1) ELSE max0
             max == IF is_none(u128_to_u64_checked(max128))
                    THEN U64_MAX
                    ELSE unwrap(u128_to_u64_checked(max128))
         IN  IF is_none(min)
             THEN [ret |-> None,
                   arith |-> {<<"mul", d, y>>, <<"div", dy, n>>}]
             ELSE [ret |-> Some(RangeInclusive(unwrap(min), max)),
                   arith |-> {<<"mul", d, y>>, <<"div", dy, n>>,
                              <<"add", dy, d>>, <<"div", dy_plus_d, n>>}]

\* Floor<Ratio<N, D>>::reverse
Floor_reverse(self, amt_after_apply) ==
    IF Ratio_is_zero(self.inner)
    THEN [ret |-> IF amt_after_apply = 0
                  THEN Some(RangeInclusive(0, U64_MAX))
                  ELSE None,
          arith |-> {}]
    ELSE LET d == as_(self.inner.d, "u128")
             n == as_(self.inner.n, "u128")
             y == as_(amt_after_apply, "u128")
             dy == wrapping(d * y)
             min128 == div_ceil(dy, n)
             min == u128_to_u64_checked(min128)
             dy_plus_d == wrapping(dy + d)
             max0 == dy_plus_d \div n
             rem == dy_plus_d % n
             max128 == IF rem = 0 THEN saturating_sub(max0, 1) ELSE max0
             max == IF is_none(u128_to_u64_checked(max128))
                    THEN U64_MAX
                    ELSE unwrap(u128_to_u64_checked(max128))
         IN  IF is_none(min)
             THEN [ret |-> None,
                   arith |-> {<<"mul", d, y>>, <<"div", dy, n>>}]
             ELSE [ret |-> Some(RangeInclusive(unwrap(min), max)),
                   arith |-> {<<"mul", d, y>>, <<"div", dy, n>>,
                              <<"add", dy, d>>, <<"div", dy_plus_d, n>>}]

\* Ceil::reverse keeping the exclusive lower bound when (dy - d) % n = 0
Ceil_reverse_no_excl(self, amt_after_apply) ==
    IF Ratio_is_zero(self.inner)
    THEN [ret |-> IF amt_after_apply = 0
                  THEN Some(RangeInclusive(0, U64_MAX))
                  ELSE None,
          arith |-> {}]
    ELSE IF amt_after_apply = 0
    THEN [ret |-> Some(RangeInclusive(0, 0)), arith |-> {}]
    ELSE LET d == as_(self.inner.d, "u128")
             n == as_(self.inner.n, "u128")
             y == as_(amt_after_apply, "u128")
             dy == wrapping(d * y)
             dy_minus_d == wrapping(dy - d)
             min0 == div_ceil(dy_minus_d, n)
             rem == dy_minus_d % n
             min128 == min0
             min == u128_to_u64_checked(min128)
             max128 == dy \div n
             max == IF is_none(u128_to_u64_checked(max128))
                    THEN U64_MAX
                    ELSE unwrap(u128_to_u64_checked(max128))
             evaluated == {<<"mul", d, y>>, <<"sub", dy, d>>,
                           <<"div", dy_minus_d, n>>} \cup
                          (IF rem = 0 THEN {<<"add", min0, 1>>} ELSE {})
         IN  IF is_none(min)
             THEN [ret |-> None, arith |-> evaluated]
             ELSE [ret |-> Some(RangeInclusive(unwrap(min), max)),
                   arith |-> evaluated \cup {<<"div", dy, n>>}]

\* Ceil::reverse testing amt_after_apply == 0 before is_zero()
Ceil_reverse_zero_last(self, amt_after_apply) ==
    IF amt_after_apply = 0
    THEN [ret |-> Some(RangeInclusive(0, 0)), arith |-> {}]
    ELSE IF Ratio_is_zero(self.inner)
    THEN [ret |-> None, arith |-> {}]
    ELSE LET d == as_(self.inner.d, "u128")
             n == as_(self.inner.n, "u128")
             y == as_(amt_after_apply, "u128")
             dy == wrapping(d * y)
             dy_minus_d == wrapping(dy - d)
             min0 == div_ceil(dy_minus_d, n)
             rem == dy_minus_d % n
             min128 == IF rem = 0 THEN wrapping(min0 + 1) ELSE min0
             min == u128_to_u64_checked(min128)
             max128 == dy \div n
             max == IF is_none(u128_to_u64_checked(max128))
                    THEN U64_MAX
                    ELSE unwrap(u128_to_u64_checked(max128))
             evaluated == {<<"mul", d, y>>, <<"sub", dy, d>>,
                           <<"div", dy_minus_d, n>>} \cup
                          (IF rem = 0 THEN {<<"add", min0, 1>>} ELSE {})
         IN  IF is_none(min)
             THEN [ret |-> None, arith |-> evaluated]
             ELSE [ret |-> Some(RangeInclusive(unwrap(min), max)),
                   arith |-> evaluated \cup {<<"div", dy, n>>}]

\* Ceil::reverse without the early return for amt_after_apply == 0
Ceil_reverse_no_early(self, amt_after_apply) ==
    IF Ratio_is_zero(self.inner)
    THEN [ret |-> IF amt_after_apply = 0
                  THEN Some(RangeInclusive(0, U64_MAX))
                  ELSE None,
          arith |-> {}]
    ELSE LET d == as_(self.inner.d, "u128")
             n == as_(self.inner.n, "u128")
             y == as_(amt_after_apply, "u128")
             dy == wrapping(d * y)
             dy_minus_d == wrapping(dy - d)
             min0 == div_ceil(dy_minus_d, n)
             rem == dy_minus_d % n
             min128 == IF rem = 0 THEN wrapping(min0 + 1) ELSE min0
             min == u128_to_u64_checked(min128)
             max128 == dy \div n
             max == IF is_none(u128_to_u64_checked(max128))
                    THEN U64_MAX
                    ELSE unwrap(u128_to_u64_checked(max128))
             evaluated == {<<"mul", d, y>>, <<"sub", dy, d>>,
                           <<"div", dy_minus_d, n>>} \cup
                          (IF rem = 0 THEN {<<"add", min0, 1>>} ELSE {})
         IN  IF is_none(min)
             THEN [ret |-> None, arith |-> evaluated]
             ELSE [ret |-> Some(RangeInclusive(unwrap(min), max)),
                   arith |-> evaluated \cup {<<"div", dy, n>>}]

\* Ceil::reverse with the minimum saturating like the maximum
Ceil_reverse_min_saturates(self, amt_after_apply) ==
    IF Ratio_is_zero(self.inner)
    THEN [ret |-> IF amt_after_apply = 0
                  THEN Some(RangeInclusive(0, U64_MAX))
                  ELSE None,
          arith |-> {}]
    ELSE IF amt_after_apply = 0
    THEN [ret |-> Some(RangeInclusive(0, 0)), arith |-> {}]
    ELSE LET d == as_(self.inner.d, "u128")
             n == as_(self.inner.n, "u128")
             y == as_(amt_after_apply, "u128")
             dy == wrapping(d * y)
             dy_minus_d == wrapping(dy - d)
             min0 == div_ceil(dy_minus_d, n)
             rem == dy_minus_d % n
             min128 == IF rem = 0 THEN wrapping(min0 + 1) ELSE min0
             min == IF is_none(u128_to_u64_checked(min128))
                    THEN U64_MAX
                    ELSE unwrap(u128_to_u64_checked(min128))
             max128 == dy \div n
             max == IF is_none(u128_to_u64_checked(max128))
                    THEN U64_MAX
                    ELSE unwrap(u128_to_u64_checked(max128))
             evaluated == {<<"mul", d, y>>, <<"sub", dy, d>>,
                           <<"div", dy_minus_d, n>>} \cup
                          (IF rem = 0 THEN {<<"add", min0, 1>>} ELSE {})
         IN  [ret |-> Some(RangeInclusive(min, max)),
              arith |-> evaluated \cup {<<"div", dy, n>>}]

\* Ceil::reverse with the maximum rounded up instead of down
Ceil_reverse_max_ceil(self, amt_after_apply) ==
    IF Ratio_is_zero(self.inner)
    THEN [ret |-> IF amt_after_apply = 0
                  THEN Some(RangeInclusive(0, U64_MAX))
                  ELSE None,
          arith |-> {}]
    ELSE IF amt_after_apply = 0
    THEN [ret |-> Some(RangeInclusive(0, 0)), arith |-> {}]
    ELSE LET d == as_(self.inner.d, "u128")
             n == as_(self.inner.n, "u128")
             y == as_(amt_after_apply, "u128")
             dy == wrapping(d * y)
             dy_minus_d == wrapping(dy - d)
             min0 == div_ceil(dy_minus_d, n)
             rem == dy_minus_d % n
             min128 == IF rem = 0 THEN wrapping(min0 + 1) ELSE min0
             min == u128_to_u64_checked(min128)
             max128 == div_ceil(dy, n)
             max == IF is_none(u128_to_u64_checked(max128))
                    THEN U64_MAX
                    ELSE unwrap(u128_to_u64_checked(max128))
             evaluated == {<<"mul", d, y>>, <<"sub", dy, d>>,
                           <<"div", dy_minus_d, n>>} \cup
                          (IF rem = 0 THEN {<<"add", min0, 1>>} ELSE {})
         IN  IF is_none(min)
             THEN [ret |-> None, arith |-> evaluated]
             ELSE [ret |-> Some(RangeInclusive(unwrap(min), max)),
                   arith |-> evaluated \cup {<<"div", dy, n>>}]

\* Ceil::reverse answering an output of 0 as a zero ratio does
Ceil_reverse_zero_unbounded(self, amt_after_apply) ==
    IF Ratio_is_zero(self.inner)
    THEN [ret |-> IF amt_after_apply = 0
                  THEN Some(RangeInclusive(0, U64_MAX))
                  ELSE None,
          arith |-> {}]
    ELSE IF amt_after_apply = 0
    THEN [ret |-> Some(RangeInclusive(0, U64_MAX)), arith |-> {}]
    ELSE LET d == as_(self.inner.d, "u128")
             n == as_(self.inner.n, "u128")
             y == as_(amt_after_apply, "u128")
             dy == wrapping(d * y)
             dy_minus_d == wrapping(dy - d)
             min0 == div_ceil(dy_minus_d, n)
             rem == dy_minus_d % n
             min128 == IF rem = 0 THEN wrapping(min0 + 1) ELSE min0
             min == u128_to_u64_checked(min128)
             max128 == dy \div n
             max == IF is_none(u128_to_u64_checked(max128))
                    THEN U64_MAX
                    ELSE unwrap(u128_to_u64_checked(max128))
             evaluated == {<<"mul", d, y>>, <<"sub", dy, d>>,
                           <<"div", dy_minus_d, n>>} \cup
                          (IF rem = 0 THEN {<<"add", min0, 1>>} ELSE {})
         IN  IF is_none(min)
             THEN [ret |-> None, arith |-> evaluated]
             ELSE [ret |-> Some(RangeInclusive(unwrap(min), max)),
                   arith |-> evaluated \cup {<<"div", dy, n>>}]

\* Ceil<Ratio<N, D>>::reverse
Ceil_reverse(self, amt_after_apply) ==
    IF Ratio_is_zero(self.inner)
    THEN [ret |-> IF amt_after_apply = 0
                  THEN Some(RangeInclusive(0, U64_MAX))
                  ELSE None,
          arith |-> {}]
    ELSE IF amt_after_apply = 0
    THEN [ret |-> Some(RangeInclusive(0, 0)), arith |-> {}]
    ELSE LET d == as_(self.inner.d, "u128")
             n == as_(self.inner.n, "u128")
             y == as_(amt_after_apply, "u128")
             dy == wrapping(d * y)
             dy_minus_d == wrapping(dy - d)
             min0 == div_ceil(dy_minus_d, n)
             rem == dy_minus_d % n
             min128 == IF rem = 0 THEN wrapping(min0 + 1) ELSE min0
             min == u128_to_u64_checked(min128)
             max128 == dy \div n
             max == IF is_none(u128_to_u64_checked(max128))
                    THEN U64_MAX
                    ELSE unwrap(u128_to_u64_checked(max128))
             evaluated == {<<"mul", d, y>>, <<"sub", dy, d>>,
                           <<"div", dy_minus_d, n>>} \cup
                          (IF rem = 0 THEN {<<"add", min0, 1>>} ELSE {})
         IN  IF is_none(min)
             THEN [ret |-> None, arith |-> evaluated]
             ELSE [ret |-> Some(RangeInclusive(unwrap(min), max)),
                   arith |-> evaluated \cup {<<"div", dy, n>>}]

\* AftFee { rem, fee }
AftFee(rem, fee) == [rem |-> rem, fee |-> fee]

\* AftFee::default (derived): both fields 0
AftFee_default == AftFee(0, 0)

\* AftFee::new_unchecked(rem, fee): the fields as given
AftFee_new_unchecked(rem, fee) == AftFee(rem, fee)

\* AftFee::bef_fee: ret is the u64 sum, arith the unchecked u64 addition
AftFee_bef_fee(self) ==
    [ret |-> as_(self.rem + self.fee, "u64"),
     arith |-> {<<"add64", self.rem, self.fee>>}]

\* BefFee(amount)
BefFee(amount) == [ty |-> "BefFee", inner |-> amount]

\* u64::checked_sub
checked_sub(a, b) == IF a < b THEN None ELSE Some(a - b)

\* with_fee storing the two amounts in each other's field
BefFee_with_fee_swapped(self, fee) ==
    LET rem == checked_sub(self.inner, fee)
    IN  IF is_none(rem) THEN None ELSE Some(AftFee(fee, unwrap(rem)))

\* BefFee(amount).with_fee(fee)
BefFee_with_fee(self, fee) ==
    LET rem == checked_sub(self.inner, fee)
    IN  IF is_none(rem) THEN None ELSE Some(AftFee(unwrap(rem), fee))

\* with_rem subtracting with wrap-around instead of checked_sub
BefFee_with_rem_wrapping(self, rem) ==
    Some(AftFee(rem, as_(self.inner - rem, "u64")))

\* BefFee(amount).with_rem(rem)
BefFee_with_rem(self, rem) ==
    LET fee == checked_sub(self.inner, rem)
    IN  IF is_none(fee) THEN None ELSE Some(AftFee(rem, unwrap(fee)))

\* Fee<Ceil<Ratio<N, D>>>::ZERO / ONE
FeeCeil_ZERO(tn, td) == Fee(Ceil(Ratio(tn, td, 0, 1)))
FeeCeil_ONE(tn, td) == Fee(Ceil(Ratio(tn, td, 1, 1)))

\* Fee<Floor<Ratio<N, D>>>::ZERO / ONE
FeeFloor_ZERO(tn, td) == Fee(Floor(Ratio(tn, td, 0, 1)))
FeeFloor_ONE(tn, td) == Fee(Floor(Ratio(tn, td, 1, 1)))

\* Fee::new rejecting only a zero denominator
FeeCeil_new_no_gt_check(fee_ratio) ==
    IF fee_ratio.d = 0
    THEN None
    ELSE Some(Fee(Ceil(fee_ratio)))

\* Fee::new comparing only n against d, without the test for d == 0
FeeCeil_new_no_zero_check(fee_ratio) ==
    LET Max == ArithMax(fee_ratio.tn, fee_ratio.td)
    IN  IF as_(fee_ratio.n, Max) > as_(fee_ratio.d, Max)
        THEN None
        ELSE Some(Fee(Ceil(fee_ratio)))

\* Fee<Ceil<Ratio<N, D>>>::new
FeeCeil_new(fee_ratio) ==
    LET Max == ArithMax(fee_ratio.tn, fee_ratio.td)
    IN  IF fee_ratio.d = 0 \/ as_(fee_ratio.n, Max) > as_(fee_ratio.d, Max)
        THEN None
        ELSE Some(Fee(Ceil(fee_ratio)))

\* Fee::new rejecting n >= d instead of n > d
FeeFloor_new_ge(fee_ratio) ==
    LET Max == ArithMax(fee_ratio.tn, fee_ratio.td)
    IN  IF fee_ratio.d = 0 \/ as_(fee_ratio.n, Max) >= as_(fee_ratio.d, Max)
        THEN None
        ELSE Some(Fee(Floor(fee_ratio)))

\* Fee<Floor<Ratio<N, D>>>::new
FeeFloor_new(fee_ratio) ==
    LET Max == ArithMax(fee_ratio.tn, fee_ratio.td)
    IN  IF fee_ratio.d = 0 \/ as_(fee_ratio.n, Max) > as_(fee_ratio.d, Max)
        THEN None
        ELSE Some(Fee(Floor(fee_ratio)))

\* Fee<Ceil<Ratio<N, D>>>::new_unchecked: any ratio is wrapped
FeeCeil_new_unchecked(fee_ratio) == Fee(Ceil(fee_ratio))

\* Fee<Floor<Ratio<N, D>>>::new_unchecked: any ratio is wrapped
FeeFloor_new_unchecked(fee_ratio) == Fee(Floor(fee_ratio))

\* Fee<Ceil<Ratio<N, D>>>::apply
FeeCeil_apply(self, amount) ==
    LET fee == Ceil_apply(self.inner, amount)
    IN  [ret |-> IF is_none(fee.ret) THEN None
                 ELSE BefFee_with_fee(BefFee(amount), unwrap(fee.ret)),
         arith |-> fee.arith]

\* Fee<Floor<Ratio<N, D>>>::apply
FeeFloor_apply(self, amount) ==
    LET fee == Floor_apply(self.inner, amount)
    IN  [ret |-> IF is_none(fee.ret) THEN None
                 ELSE BefFee_with_fee(BefFee(amount), unwrap(fee.ret)),
         arith |-> fee.arith]

\* one_minus_fee_ratio without the special case of a zero fee
FeeCeil_one_minus_no_zero_case(self) ==
    LET ratio == self.inner.inner
        Max == ArithMax(ratio.tn, ratio.td)
        d == as_(ratio.d, Max)
        n == as_(ratio.n, Max)
    IN  [ret |-> Ratio(Max, Max, as_(d - n, Max), d),
         arith |-> {<<"sub", d, n>>}]

\* Fee<Ceil<Ratio<N, D>>>::one_minus_fee_ratio: a Ratio<Max, Max>
FeeCeil_one_minus_fee_ratio(self) ==
    LET ratio == self.inner.inner
        Max == ArithMax(ratio.tn, ratio.td)
    IN  IF Ratio_is_zero(ratio)
        THEN [ret |-> Ratio_ONE(Max, Max), arith |-> {}]
        ELSE LET d == as_(ratio.d, Max)
                 n == as_(ratio.n, Max)
             IN  [ret |-> Ratio(Max, Max, as_(d - n, Max), d),
                  arith |-> {<<"sub", d, n>>}]

\* reverse_from_rem reversing through the fee's own rounding mode
FeeCeil_reverse_from_rem_same_mode(self, rem) ==
    IF Ratio_is_zero(self.inner.inner)
    THEN [ret |-> Some(RangeInclusive(rem, rem)), arith |-> {}]
    ELSE LET om == FeeCeil_one_minus_fee_ratio(self)
             rev == Ceil_reverse(Ceil(om.ret), rem)
         IN  [ret |-> rev.ret, arith |-> om.arith \cup rev.arith]

\* Fee<Ceil<Ratio<N, D>>>::reverse_from_rem
FeeCeil_reverse_from_rem(self, rem) ==
    IF Ratio_is_zero(self.inner.inner)
    THEN [ret |-> Some(RangeInclusive(rem, rem)), arith |-> {}]
    ELSE LET om == FeeCeil_one_minus_fee_ratio(self)
             rev == Floor_reverse(Floor(om.ret), rem)
         IN  [ret |-> rev.ret, arith |-> om.arith \cup rev.arith]

\* reverse_from_fee whose is_one shortcut answers every amount up to the fee
FeeCeil_reverse_from_fee_shortcut_from_zero(self, fee) ==
    LET r == self.inner
    IN  IF Ratio_is_one(r.inner)
        THEN [ret |-> Some(RangeInclusive(0, fee)), arith |-> {}]
        ELSE Ceil_reverse(r, fee)

\* Fee<Ceil<Ratio<N, D>>>::reverse_from_fee
FeeCeil_reverse_from_fee(self, fee) ==
    LET r == self.inner
    IN  IF Ratio_is_one(r.inner)
        THEN [ret |-> Some(RangeInclusive(fee, fee)), arith |-> {}]
        ELSE Ceil_reverse(r, fee)

\* Fee<Floor<Ratio<N, D>>>::one_minus_fee_ratio: a Ratio<Max, Max>
FeeFloor_one_minus_fee_ratio(self) ==
    LET ratio == self.inner.inner
        Max == ArithMax(ratio.tn, ratio.td)
    IN  IF Ratio_is_zero(ratio)
        THEN [ret |-> Ratio_ONE(Max, Max), arith |-> {}]
        ELSE LET d == as_(ratio.d, Max)
                 n == as_(ratio.n, Max)
             IN  [ret |-> Ratio(Max, Max, as_(d - n, Max), d),
                  arith |-> {<<"sub", d, n>>}]

\* Fee<Floor<Ratio<N, D>>>::reverse_from_rem
FeeFloor_reverse_from_rem(self, rem) ==
    IF Ratio_is_zero(self.inner.inner)
    THEN [ret |-> Some(RangeInclusive(rem, rem)), arith |-> {}]
    ELSE LET om == FeeFloor_one_minus_fee_ratio(self)
             rev == Ceil_reverse(Ceil(om.ret), rem)
         IN  [ret |-> rev.ret, arith |-> om.arith \cup rev.arith]

\* the floor Fee's reverse_from_fee reversing as a ceiling
FeeFloor_reverse_from_fee_as_ceil(self, fee) ==
    LET r == self.inner
    IN  IF Ratio_is_one(r.inner)
        THEN [ret |-> Some(RangeInclusive(fee, fee)), arith |-> {}]
        ELSE Ceil_reverse(Ceil(r.inner), fee)

\* Fee<Floor<Ratio<N, D>>>::reverse_from_fee
FeeFloor_reverse_from_fee(self, fee) ==
    LET r == self.inner
    IN  IF Ratio_is_one(r.inner)
        THEN [ret |-> Some(RangeInclusive(fee, fee)), arith |-> {}]
        ELSE Floor_reverse(r, fee)

(***************************************************************************)
(* State: the value under use (a bare Ratio, or a ratio wrapped in Floor,  *)
(* Ceil or Fee), the last operation called on it, its argument, what it    *)
(* returned and the unchecked arithmetic it evaluated.                     *)
(***************************************************************************)
VARIABLES obj, op, arg, ret, arith

vars == <<obj, op, arg, ret, arith>>

\* Ratio::new(n, d) for any n, d of the types, or BefFee(amount)
Init ==
    /\ obj \in {Bare(r) : r \in Ratios} \cup {BefFee(a) : a \in U64}
    /\ op = "Ratio::new"
    /\ arg = 0
    /\ ret = None
    /\ arith = {}

\* Floor::new(r)
FloorNew ==
    /\ obj.ty = "Ratio"
    /\ obj' = Floor(obj.inner)
    /\ op' = "Floor::new"
    /\ arg' = 0
    /\ ret' = None
    /\ arith' = {}

\* Ceil::new(r)
CeilNew ==
    /\ obj.ty = "Ratio"
    /\ obj' = Ceil(obj.inner)
    /\ op' = "Ceil::new"
    /\ arg' = 0
    /\ ret' = None
    /\ arith' = {}

FloorApply ==
    /\ obj.ty = "Floor"
    /\ \E amount \in U64 :
         /\ op' = "Floor::apply"
         /\ arg' = amount
         /\ ret' = Floor_apply(obj, amount).ret
         /\ arith' = Floor_apply(obj, amount).arith
    /\ UNCHANGED obj

CeilApply ==
    /\ obj.ty = "Ceil"
    /\ \E amount \in U64 :
         /\ op' = "Ceil::apply"
         /\ arg' = amount
         /\ ret' = Ceil_apply(obj, amount).ret
         /\ arith' = Ceil_apply(obj, amount).arith
    /\ UNCHANGED obj

FloorReverse ==
    /\ obj.ty = "Floor"
    /\ \E amt_after_apply \in U64 :
         /\ op' = "Floor::reverse"
         /\ arg' = amt_after_apply
         /\ ret' = Floor_reverse(obj, amt_after_apply).ret
         /\ arith' = Floor_reverse(obj, amt_after_apply).arith
    /\ UNCHANGED obj

CeilReverse ==
    /\ obj.ty = "Ceil"
    /\ \E amt_after_apply \in U64 :
         /\ op' = "Ceil::reverse"
         /\ arg' = amt_after_apply
         /\ ret' = Ceil_reverse(obj, amt_after_apply).ret
         /\ arith' = Ceil_reverse(obj, amt_after_apply).arith
    /\ UNCHANGED obj

\* Fee::<Ceil<Ratio>>::new(ratio): the Fee replaces the ratio when accepted
FeeCeilNew ==
    /\ obj.ty = "Ratio"
    /\ LET f == FeeCeil_new(obj.inner)
       IN  /\ obj' = IF is_some(f) THEN unwrap(f) ELSE obj
           /\ op' = "FeeCeil::new"
           /\ arg' = 0
           /\ ret' = f
           /\ arith' = {}

FeeFloorNew ==
    /\ obj.ty = "Ratio"
    /\ LET f == FeeFloor_new(obj.inner)
       IN  /\ obj' = IF is_some(f) THEN unwrap(f) ELSE obj
           /\ op' = "FeeFloor::new"
           /\ arg' = 0
           /\ ret' = f
           /\ arith' = {}

\* unsafe Fee::<Ceil<Ratio>>::new_unchecked(ratio), whatever the ratio
FeeCeilNewUnchecked ==
    /\ obj.ty = "Ratio"
    /\ obj' = FeeCeil_new_unchecked(obj.inner)
    /\ op' = "FeeCeil::new_unchecked"
    /\ arg' = 0
    /\ ret' = Some(FeeCeil_new_unchecked(obj.inner))
    /\ arith' = {}

\* unsafe Fee::<Floor<Ratio>>::new_unchecked(ratio), whatever the ratio
FeeFloorNewUnchecked ==
    /\ obj.ty = "Ratio"
    /\ obj' = FeeFloor_new_unchecked(obj.inner)
    /\ op' = "FeeFloor::new_unchecked"
    /\ arg' = 0
    /\ ret' = Some(FeeFloor_new_unchecked(obj.inner))
    /\ arith' = {}

\* the associated constants Fee::ZERO and Fee::ONE of the ratio's type
FeeConst ==
    /\ obj.ty = "Ratio"
    /\ op = "Ratio::new"
    /\ LET tn == obj.inner.tn
           td == obj.inner.td
       IN  \/ obj' = FeeCeil_ZERO(tn, td) /\ op' = "Fee::ZERO"
           \/ obj' = FeeFloor_ZERO(tn, td) /\ op' = "Fee::ZERO"
           \/ obj' = FeeCeil_ONE(tn, td) /\ op' = "Fee::ONE"
           \/ obj' = FeeFloor_ONE(tn, td) /\ op' = "Fee::ONE"
    /\ arg' = 0
    /\ ret' = None
    /\ arith' = {}

FeeCeilApply ==
    /\ obj.ty = "Fee"
    /\ obj.inner.ty = "Ceil"
    /\ \E amount \in U64 :
         /\ op' = "Fee::apply"
         /\ arg' = amount
         /\ ret' = FeeCeil_apply(obj, amount).ret
         /\ arith' = FeeCeil_apply(obj, amount).arith
    /\ UNCHANGED obj

FeeFloorApply ==
    /\ obj.ty = "Fee"
    /\ obj.inner.ty = "Floor"
    /\ \E amount \in U64 :
         /\ op' = "Fee::apply"
         /\ arg' = amount
         /\ ret' = FeeFloor_apply(obj, amount).ret
         /\ arith' = FeeFloor_apply(obj, amount).arith
    /\ UNCHANGED obj

FeeCeilReverseFromRem ==
    /\ obj.ty = "Fee"
    /\ obj.inner.ty = "Ceil"
    /\ \E rem \in U64 :
         /\ op' = "Fee::reverse_from_rem"
         /\ arg' = rem
         /\ ret' = FeeCeil_reverse_from_rem(obj, rem).ret
         /\ arith' = FeeCeil_reverse_from_rem(obj, rem).arith
    /\ UNCHANGED obj

FeeCeilReverseFromFee ==
    /\ obj.ty = "Fee"
    /\ obj.inner.ty = "Ceil"
    /\ \E fee \in U64 :
         /\ op' = "Fee::reverse_from_fee"
         /\ arg' = fee
         /\ ret' = FeeCeil_reverse_from_fee(obj, fee).ret
         /\ arith' = FeeCeil_reverse_from_fee(obj, fee).arith
    /\ UNCHANGED obj

FeeCeilOneMinusFeeRatio ==
    /\ obj.ty = "Fee"
    /\ obj.inner.ty = "Ceil"
    /\ op' = "Fee::one_minus_fee_ratio"
    /\ arg' = 0
    /\ ret' = Some(FeeCeil_one_minus_fee_ratio(obj).ret)
    /\ arith' = FeeCeil_one_minus_fee_ratio(obj).arith
    /\ UNCHANGED obj

FeeFloorReverseFromRem ==
    /\ obj.ty = "Fee"
    /\ obj.inner.ty = "Floor"
    /\ \E rem \in U64 :
         /\ op' = "Fee::reverse_from_rem"
         /\ arg' = rem
         /\ ret' = FeeFloor_reverse_from_rem(obj, rem).ret
         /\ arith' = FeeFloor_reverse_from_rem(obj, rem).arith
    /\ UNCHANGED obj

FeeFloorReverseFromFee ==
    /\ obj.ty = "Fee"
    /\ obj.inner.ty = "Floor"
    /\ \E fee \in U64 :
         /\ op' = "Fee::reverse_from_fee"
         /\ arg' = fee
         /\ ret' = FeeFloor_reverse_from_fee(obj, fee).ret
         /\ arith' = FeeFloor_reverse_from_fee(obj, fee).arith
    /\ UNCHANGED obj

FeeFloorOneMinusFeeRatio ==
    /\ obj.ty = "Fee"
    /\ obj.inner.ty = "Floor"
    /\ op' = "Fee::one_minus_fee_ratio"
    /\ arg' = 0
    /\ ret' = Some(FeeFloor_one_minus_fee_ratio(obj).ret)
    /\ arith' = FeeFloor_one_minus_fee_ratio(obj).arith
    /\ UNCHANGED obj

BefFeeWithFee ==
    /\ obj.ty = "BefFee"
    /\ \E fee \in U64 :
         /\ op' = "BefFee::with_fee"
         /\ arg' = fee
         /\ ret' = BefFee_with_fee(obj, fee)
    /\ arith' = {}
    /\ UNCHANGED obj

BefFeeWithRem ==
    /\ obj.ty = "BefFee"
    /\ \E rem \in U64 :
         /\ op' = "BefFee::with_rem"
         /\ arg' = rem
         /\ ret' = BefFee_with_rem(obj, rem)
    /\ arith' = {}
    /\ UNCHANGED obj

\* AftFee::default()
AftFeeDefault ==
    /\ obj.ty = "BefFee"
    /\ op' = "AftFee::default"
    /\ arg' = 0
    /\ ret' = Some(AftFee_default)
    /\ arith' = {}
    /\ UNCHANGED obj

\* unsafe AftFee::new_unchecked(rem, fee), whatever the two amounts
AftFeeNewUnchecked ==
    /\ obj.ty = "BefFee"
    /\ op = "Ratio::new"
    /\ \E rem \in U64, fee \in U64 :
         ret' = Some(AftFee_new_unchecked(rem, fee))
    /\ op' = "AftFee::new_unchecked"
    /\ arg' = 0
    /\ arith' = {}
    /\ UNCHANGED obj

\* the operations that return an AftFee
AftFeeSources == {"Fee::apply", "BefFee::with_fee", "BefFee::with_rem",
                  "AftFee::default", "AftFee::new_unchecked"}

\* bef_fee() on the AftFee just returned, which becomes the value under use
AftFeeBefFee ==
    /\ op \in AftFeeSources
    /\ is_some(ret)
    /\ obj' = [ty |-> "AftFee", inner |-> unwrap(ret)]
    /\ op' = "AftFee::bef_fee"
    /\ arg' = 0
    /\ ret' = Some(AftFee_bef_fee(unwrap(ret)).ret)
    /\ arith' = AftFee_bef_fee(unwrap(ret)).arith

Next ==
    \/ FloorNew
    \/ CeilNew
    \/ FloorApply
    \/ CeilApply
    \/ FloorReverse
    \/ CeilReverse
    \/ FeeCeilNew
    \/ FeeFloorNew
    \/ FeeCeilNewUnchecked
    \/ FeeFloorNewUnchecked
    \/ FeeConst
    \/ FeeCeilApply
    \/ FeeFloorApply
    \/ FeeCeilReverseFromRem
    \/ FeeCeilReverseFromFee
    \/ FeeCeilOneMinusFeeRatio
    \/ FeeFloorReverseFromRem
    \/ FeeFloorReverseFromFee
    \/ FeeFloorOneMinusFeeRatio
    \/ BefFeeWithFee
    \/ BefFeeWithRem
    \/ AftFeeDefault
    \/ AftFeeNewUnchecked
    \/ AftFeeBefFee

Spec == Init /\ [][Next]_vars

(***************************************************************************)
(* Ordering, equality, hashing and normalisation of bare ratios.  These    *)
(* are pure methods on a value that is never changed, so a call made after *)
(* another call reaches the same state as the call made on the fresh       *)
(* ratio: every method is called once, on a freshly built ratio.           *)
(***************************************************************************)
\* self.const_cmp(other), also cmp / partial_cmp / eq, for any other ratio
\* of the same type
RatioConstCmp ==
    /\ obj.ty = "Ratio"
    /\ op = "Ratio::new"
    /\ \E other \in Ratios :
         /\ other.tn = obj.inner.tn
         /\ other.td = obj.inner.td
         /\ op' = "Ratio::const_cmp"
         /\ arg' = other
         /\ ret' = Some(Ratio_const_cmp(obj.inner, other).ret)
         /\ arith' = Ratio_const_cmp(obj.inner, other).arith
    /\ UNCHANGED obj

RatioLowestForm ==
    /\ obj.ty = "Ratio"
    /\ op = "Ratio::new"
    /\ op' = "Ratio::lowest_form"
    /\ arg' = 0
    /\ ret' = Some(Ratio_lowest_form(obj.inner).ret)
    /\ arith' = Ratio_lowest_form(obj.inner).arith
    /\ UNCHANGED obj

RatioHash ==
    /\ obj.ty = "Ratio"
    /\ op = "Ratio::new"
    /\ op' = "Ratio::hash"
    /\ arg' = 0
    /\ ret' = Some(Ratio_hash(obj.inner).ret)
    /\ arith' = Ratio_hash(obj.inner).arith
    /\ UNCHANGED obj

NextOrd ==
    \/ RatioConstCmp
    \/ RatioLowestForm
    \/ RatioHash

SpecOrd == Init /\ [][NextOrd]_vars

(***************************************************************************)
(* The recursion of gcd, one call at a time.  obj is the frame under       *)
(* evaluation (the arguments of the current call), arg the arguments of    *)
(* the outermost call.  The recursive call is a tail call, so the value    *)
(* returned by the innermost call is the value of the outermost one.       *)
(***************************************************************************)
GcdFrame(a, b) == [ty |-> "gcd", inner |-> [a |-> a, b |-> b]]

\* gcd(a % b, b): the arguments of the recursive call in the wrong order
gcd_recurse_swapped(a, b) == GcdFrame(a % b, b)

\* the recursive call $f(b, a % b)
gcd_recurse(a, b) == GcdFrame(b, a % b)

\* gcd_u64(a, b) is called
InitGcd ==
    /\ obj \in {GcdFrame(a, b) : a \in U64, b \in U64}
    /\ op = "gcd"
    /\ arg = obj.inner
    /\ ret = None
    /\ arith = {}

\* if b > 0 { gcd(b, a % b) }
GcdRecurse ==
    /\ is_none(ret)
    /\ obj.inner.b > 0
    /\ obj' = gcd_recurse(obj.inner.a, obj.inner.b)
    /\ arith' = {<<"div", obj.inner.a, obj.inner.b>>}
    /\ UNCHANGED <<op, arg, ret>>

\* else { a }
GcdReturn ==
    /\ is_none(ret)
    /\ ~(obj.inner.b > 0)
    /\ ret' = Some(obj.inner.a)
    /\ arith' = {}
    /\ UNCHANGED <<obj, op, arg>>

NextGcd ==
    \/ GcdRecurse
    \/ GcdReturn

\* a call that can take its next step takes it
SpecGcd == InitGcd /\ [][NextGcd]_vars /\ WF_vars(NextGcd)

\* every operation of the three crates
NextAll ==
    \/ Next
    \/ NextOrd

SpecAll == Init /\ [][NextAll]_vars

TypeOK ==
    /\ obj.ty \in {"Ratio", "Floor", "Ceil", "Fee", "BefFee", "AftFee"}
    /\ IF op = "Ratio::const_cmp" THEN arg \in Ratios ELSE arg \in U64
    /\ Len(ret) <= 1

(***************************************************************************)
(* The limits the property tests draw their inputs from.                   *)
(***************************************************************************)
\* u64::try_from(v).unwrap_or(u64::MAX)
try_into_or_max(v) == IF v > U64_MAX THEN U64_MAX ELSE v

\* Ratio::prop_gte_one: n >= d >= 1
prop_gte_one(r) == r.d >= 1 /\ r.n >= r.d

\* Ratio::prop_lte_one: a non-zero ratio with n <= d
prop_lte_one(r) == r.n >= 1 /\ r.n <= r.d

\* Floor::prop_ratio_gte_one_and_overflow_max_limit
Floor_overflow_max_limit(ratio) ==
    try_into_or_max(((1 + U64_MAX) * ratio.d) \div ratio.n)

\* Floor::prop_ratio_lte_one_and_rev_overflow_max_limit
Floor_rev_overflow_max_limit(ratio) == (U64_MAX * ratio.n) \div ratio.d

\* u64::saturating_add
saturating_add(a, b) == IF a + b > U64_MAX THEN U64_MAX ELSE a + b

\* proptest_inputs of the fee tests: the largest arguments of the four
\* reversals, for a fee n/d built by new
floor_fee_max(n, d) == (U64_MAX * n) \div d
floor_rem_max(n, d) == saturating_add((U64_MAX * (d - n)) \div d, 1)
ceil_fee_max(n, d) == saturating_add((U64_MAX * n) \div d, 1)
ceil_rem_max(n, d) == (U64_MAX * (d - n)) \div d

(***************************************************************************)
(* Exact rational rounding, stated without integer division.               *)
(***************************************************************************)
\* floor(a / b) for b > 0
FloorQ(a, b) == CHOOSE q \in 0..a : q * b <= a /\ a < (q + 1) * b
\* ceil(a / b) for b > 0
CeilQ(a, b) == CHOOSE q \in 0..a : (q - 1) * b < a /\ a <= q * b

\* C1: for a ratio with n # 0 and d # 0, Floor.apply(x) is Some(floor(x*n/d))
\* when that value fits a u64 and None otherwise, and Ceil.apply(x) is
\* Some(ceil(x*n/d)) when that value fits a u64 and None otherwise.
C1_ApplyIsExactRounding ==
    /\ (op = "Floor::apply" /\ obj.inner.n # 0 /\ obj.inner.d # 0) =>
         LET v == FloorQ(arg * obj.inner.n, obj.inner.d)
         IN  ret = IF v <= U64_MAX THEN Some(v) ELSE None
    /\ (op = "Ceil::apply" /\ obj.inner.n # 0 /\ obj.inner.d # 0) =>
         LET v == CeilQ(arg * obj.inner.n, obj.inner.d)
         IN  ret = IF v <= U64_MAX THEN Some(v) ELSE None

\* a ceiling application that rounded up to exactly u64::MAX
C1_Witness ==
    /\ op = "Ceil::apply"
    /\ ~Ratio_is_zero(obj.inner)
    /\ ret = Some(U64_MAX)
    /\ U64_MAX * obj.inner.d # arg * obj.inner.n

\* C2: Floor.reverse is the exact preimage of Floor.apply: when it returns
\* Some(lo..=hi), a u64 x lies in lo..=hi iff Floor.apply(x) = Some(y); when
\* it returns None, no u64 x has Floor.apply(x) = Some(y).
C2_FloorReverseIsPreimage ==
    (op = "Floor::reverse" /\ ~Ratio_is_zero(obj.inner)) =>
        IF is_none(ret)
        THEN \A x \in U64 : Floor_apply(obj, x).ret # Some(arg)
        ELSE \A x \in U64 :
               contains(unwrap(ret), x) <=> (Floor_apply(obj, x).ret = Some(arg))

\* a floor reversal returning a proper interval strictly inside the u64 range
C2_Witness ==
    /\ op = "Floor::reverse"
    /\ ~Ratio_is_zero(obj.inner)
    /\ arg > 0
    /\ is_some(ret)
    /\ unwrap(ret).start < unwrap(ret).end
    /\ unwrap(ret).end < U64_MAX

\* C3: Ceil.reverse is the exact preimage of Ceil.apply: when it returns
\* Some(lo..=hi), every x in lo..=hi has Ceil.apply(x) = Some(y) exactly and
\* every x outside has Ceil.apply(x) # Some(y); when it returns None, no u64
\* x has Ceil.apply(x) = Some(y).
C3_CeilReverseIsPreimage ==
    (op = "Ceil::reverse" /\ ~Ratio_is_zero(obj.inner)) =>
        IF is_none(ret)
        THEN \A x \in U64 : Ceil_apply(obj, x).ret # Some(arg)
        ELSE /\ \A x \in U64 : contains(unwrap(ret), x) =>
                                 Ceil_apply(obj, x).ret = Some(arg)
             /\ \A x \in U64 : ~contains(unwrap(ret), x) =>
                                 Ceil_apply(obj, x).ret # Some(arg)

\* a ceiling reversal of a non-zero output returning a proper interval
C3_Witness ==
    /\ op = "Ceil::reverse"
    /\ ~Ratio_is_zero(obj.inner)
    /\ arg > 0
    /\ is_some(ret)
    /\ unwrap(ret).start < unwrap(ret).end
    /\ unwrap(ret).end < U64_MAX

\* C4: round trip: for every ratio (zero or not) and both modes, when
\* apply(x) = Some(y), reverse(y) is Some(lo..=hi) with lo <= hi and
\* lo <= x <= hi.
C4_RoundTrip ==
    /\ (op = "Floor::apply" /\ is_some(ret)) =>
         LET rev == Floor_reverse(obj, unwrap(ret)).ret
         IN  /\ is_some(rev)
             /\ unwrap(rev).start <= unwrap(rev).end
             /\ contains(unwrap(rev), arg)
    /\ (op = "Ceil::apply" /\ is_some(ret)) =>
         LET rev == Ceil_reverse(obj, unwrap(ret)).ret
         IN  /\ is_some(rev)
             /\ unwrap(rev).start <= unwrap(rev).end
             /\ contains(unwrap(rev), arg)

\* a floor application whose reversal saturates at u64::MAX and starts
\* below the applied amount
C4_Witness ==
    /\ op = "Floor::apply"
    /\ ~Ratio_is_zero(obj.inner)
    /\ is_some(ret)
    /\ unwrap(Floor_reverse(obj, unwrap(ret)).ret).end = U64_MAX
    /\ unwrap(Floor_reverse(obj, unwrap(ret)).ret).start < arg
    /\ arg < U64_MAX

\* C5: boundary exactness: when reverse(y) = Some(lo..=hi), apply(lo - 1) #
\* Some(y) if lo > 0, and apply(hi + 1) # Some(y) if hi < u64::MAX.
C5_BoundaryExact ==
    /\ (op = "Floor::reverse" /\ is_some(ret)) =>
         /\ unwrap(ret).start > 0 =>
              Floor_apply(obj, unwrap(ret).start - 1).ret # Some(arg)
         /\ unwrap(ret).end < U64_MAX =>
              Floor_apply(obj, unwrap(ret).end + 1).ret # Some(arg)
    /\ (op = "Ceil::reverse" /\ is_some(ret)) =>
         /\ unwrap(ret).start > 0 =>
              Ceil_apply(obj, unwrap(ret).start - 1).ret # Some(arg)
         /\ unwrap(ret).end < U64_MAX =>
              Ceil_apply(obj, unwrap(ret).end + 1).ret # Some(arg)

\* a floor reversal with both neighbours inside the u64 range, where applying
\* to the upper neighbour overflows
C5_Witness ==
    /\ op = "Floor::reverse"
    /\ is_some(ret)
    /\ unwrap(ret).start > 0
    /\ unwrap(ret).start <= unwrap(ret).end
    /\ unwrap(ret).end < U64_MAX
    /\ is_none(Floor_apply(obj, unwrap(ret).end + 1).ret)

\* C6: a zero ratio (n = 0 or d = 0), in both modes: apply(x) = Some(0) for
\* every x, with no division evaluated; reverse(0) = Some(0..=u64::MAX);
\* reverse(y) = None for every y # 0.
C6_ZeroRatio ==
    (obj.ty \in {"Floor", "Ceil"} /\ Ratio_is_zero(obj.inner)) =>
        /\ op \in {"Floor::apply", "Ceil::apply"} =>
             ret = Some(0) /\ arith = {}
        /\ op \in {"Floor::reverse", "Ceil::reverse"} =>
             /\ arg = 0 => ret = Some(RangeInclusive(0, U64_MAX))
             /\ arg # 0 => ret = None
             /\ arith = {}

\* the zero-denominator encoding with a non-zero numerator, reversed at 0
C6_Witness ==
    /\ op = "Ceil::reverse"
    /\ obj.inner.d = 0
    /\ obj.inner.n # 0
    /\ arg = 0
    /\ ret = Some(RangeInclusive(0, U64_MAX))

\* C7: for a non-zero ratio Ceil.reverse(0) is exactly Some(0..=0), returned
\* before d*y - d is computed: the subtraction is never evaluated with
\* y = 0 and never underflows.
C7_CeilReverseZero ==
    (op = "Ceil::reverse" /\ ~Ratio_is_zero(obj.inner)) =>
        /\ arg = 0 =>
             /\ ret = Some(RangeInclusive(0, 0))
             /\ \A t \in arith : t[1] # "sub"
        /\ \A t \in arith : t[1] = "sub" => ~OutOfRange(t)

\* Ceil.reverse(0) on a ratio above one
C7_Witness ==
    /\ op = "Ceil::reverse"
    /\ obj.inner.d >= 1
    /\ obj.inner.n > obj.inner.d
    /\ arg = 0
    /\ is_some(ret)

\* C8: floor/ceil duality: when Ceil.apply(x) and Floor.apply(x) both
\* succeed for the same ratio and amount, their difference is 0 or 1.
C8_FloorCeilDuality ==
    /\ (op = "Ceil::apply" /\ is_some(ret)) =>
         LET f == Floor_apply(Floor(obj.inner), arg).ret
         IN  is_some(f) => unwrap(ret) - unwrap(f) \in {0, 1}
    /\ (op = "Floor::apply" /\ is_some(ret)) =>
         LET c == Ceil_apply(Ceil(obj.inner), arg).ret
         IN  is_some(c) => unwrap(c) - unwrap(ret) \in {0, 1}

\* a ceiling application one above the floor application
C8_Witness ==
    /\ op = "Ceil::apply"
    /\ is_some(ret)
    /\ unwrap(ret) > 1
    /\ Floor_apply(Floor(obj.inner), arg).ret = Some(unwrap(ret) - 1)

\* the ratio held by the Fee under use
FeeRatio == obj.inner.inner

\* the Fee under use is a value Fee::new returns (ZERO and ONE are such
\* values); a Fee of new_unchecked holding another ratio is not
FeeFromNew ==
    /\ obj.ty = "Fee"
    /\ Some(obj) = (IF obj.inner.ty = "Ceil"
                    THEN FeeCeil_new(FeeRatio)
                    ELSE FeeFloor_new(FeeRatio))

\* C9: for a Fee built by Fee::new (either mode), Fee::apply(x) is never
\* None and its result has rem + fee = x (bef_fee() = x) and fee <= x.
C9_FeeApplyTotal ==
    (op = "Fee::apply" /\ FeeFromNew) =>
        /\ is_some(ret)
        /\ unwrap(ret).rem + unwrap(ret).fee = arg
        /\ AftFee_bef_fee(unwrap(ret)).ret = arg
        /\ unwrap(ret).fee <= arg

\* a ceiling fee that splits an amount into a non-zero remainder and a
\* non-zero, rounded-up fee
C9_Witness ==
    /\ op = "Fee::apply"
    /\ FeeFromNew
    /\ obj.inner.ty = "Ceil"
    /\ is_some(ret)
    /\ unwrap(ret).rem > 0
    /\ unwrap(ret).fee > 0
    /\ unwrap(ret).fee * obj.inner.inner.d # arg * obj.inner.inner.n

\* C10: a Fee whose ratio is zero yields rem = x and fee = 0; a Fee whose
\* ratio is one yields rem = 0 and fee = x; Fee::ZERO satisfies is_zero()
\* and Fee::ONE satisfies is_one().
C10_FeeZeroOne ==
    /\ (op = "Fee::apply" /\ Ratio_is_zero(obj.inner.inner)) =>
         ret = Some(AftFee(arg, 0))
    /\ (op = "Fee::apply" /\ Ratio_is_one(obj.inner.inner)) =>
         ret = Some(AftFee(0, arg))
    /\ op = "Fee::ZERO" => Ratio_is_zero(obj.inner.inner)
    /\ op = "Fee::ONE" => Ratio_is_one(obj.inner.inner)

\* a fee of one that is not the constant ONE, applied to a non-zero amount
C10_Witness ==
    /\ op = "Fee::apply"
    /\ Ratio_is_one(obj.inner.inner)
    /\ obj.inner.inner.n > 1
    /\ arg > 0
    /\ is_some(ret)

\* the ratio a Fee::new call was given: held by the Fee when accepted
NewRatio == IF obj.ty = "Fee" THEN obj.inner.inner ELSE obj.inner

\* C11 as stated: Fee::new returns None exactly when the numerator exceeds
\* the denominator, or the denominator is 0 while the numerator is nonzero;
\* every other ratio is accepted unchanged.
C11_Original ==
    op \in {"FeeCeil::new", "FeeFloor::new"} =>
        /\ is_none(ret) <=> \/ NewRatio.n > NewRatio.d
                            \/ (NewRatio.d = 0 /\ NewRatio.n # 0)
        /\ is_some(ret) => unwrap(ret).inner.inner = NewRatio

\* C11 (amended): Fee::new returns None exactly when the denominator is 0
\* (whatever the numerator, 0/0 included) or the numerator exceeds the
\* denominator; every other ratio is accepted, wrapped unchanged in the
\* rounding mode of the Fee.
C11_FeeNewRejects ==
    /\ op \in {"FeeCeil::new", "FeeFloor::new"} =>
         /\ is_none(ret) <=> (NewRatio.d = 0 \/ NewRatio.n > NewRatio.d)
         /\ is_none(ret) => obj.ty = "Ratio"
    /\ (op = "FeeCeil::new" /\ is_some(ret)) =>
         /\ ret = Some(Fee(Ceil(NewRatio)))
         /\ obj = unwrap(ret)
    /\ (op = "FeeFloor::new" /\ is_some(ret)) =>
         /\ ret = Some(Fee(Floor(NewRatio)))
         /\ obj = unwrap(ret)

\* the ratio 0/0 handed to Fee::new and rejected
C11_Witness ==
    /\ op = "FeeFloor::new"
    /\ NewRatio.n = 0
    /\ NewRatio.d = 0
    /\ is_none(ret)

\* C12: Fee::new rejects every ratio whose denominator is 0, whatever the
\* numerator; every Fee obtained from new, ZERO or ONE holds a ratio with
\* d # 0 and n <= d, so such a Fee is zero exactly when its n is 0.
C12_FeeDenominatorNonZero ==
    /\ (op \in {"FeeCeil::new", "FeeFloor::new"} /\ NewRatio.d = 0) =>
         is_none(ret) /\ obj.ty = "Ratio"
    /\ FeeFromNew =>
         /\ obj.inner.inner.d # 0
         /\ obj.inner.inner.n <= obj.inner.inner.d
         /\ Ratio_is_zero(obj.inner.inner) <=> obj.inner.inner.n = 0

\* a zero denominator with a zero numerator rejected by the ceiling Fee
C12_Witness ==
    /\ op = "FeeCeil::new"
    /\ obj.ty = "Ratio"
    /\ obj.inner.d = 0
    /\ obj.inner.n = 0
    /\ is_none(ret)

\* C13: for a Fee built by new, reverse_from_rem is the exact preimage of
\* the remainder: when it
\* returns Some(lo..=hi), a u64 x lies in lo..=hi iff apply(x).rem() = rem;
\* when it returns None no u64 x has apply(x).rem() = rem; for a zero fee
\* it is exactly rem..=rem.
C13_ReverseFromRemIsPreimage ==
    /\ (op = "Fee::reverse_from_rem" /\ FeeFromNew /\ obj.inner.ty = "Ceil") =>
         IF is_none(ret)
         THEN \A x \in U64 : unwrap(FeeCeil_apply(obj, x).ret).rem # arg
         ELSE \A x \in U64 :
                contains(unwrap(ret), x) <=>
                    (unwrap(FeeCeil_apply(obj, x).ret).rem = arg)
    /\ (op = "Fee::reverse_from_rem" /\ FeeFromNew /\ obj.inner.ty = "Floor") =>
         IF is_none(ret)
         THEN \A x \in U64 : unwrap(FeeFloor_apply(obj, x).ret).rem # arg
         ELSE \A x \in U64 :
                contains(unwrap(ret), x) <=>
                    (unwrap(FeeFloor_apply(obj, x).ret).rem = arg)
    /\ (op = "Fee::reverse_from_rem" /\ Ratio_is_zero(obj.inner.inner)) =>
         ret = Some(RangeInclusive(arg, arg))

\* a ceiling fee strictly between zero and one whose remainder reverses, through
\* the floor of the complementary ratio, to a proper interval
C13_Witness ==
    /\ op = "Fee::reverse_from_rem"
    /\ obj.inner.ty = "Ceil"
    /\ ~Ratio_is_zero(obj.inner.inner)
    /\ ~Ratio_is_one(obj.inner.inner)
    /\ arg > 0
    /\ is_some(ret)
    /\ unwrap(ret).start < unwrap(ret).end
    /\ unwrap(ret).end < U64_MAX

\* C14: for a Fee built by new, reverse_from_fee is the exact preimage of
\* the fee: when it returns
\* Some(lo..=hi), a u64 x lies in lo..=hi iff apply(x).fee() = f; when it
\* returns None no u64 x has apply(x).fee() = f.  Ceil fee 1/3 applied to 10
\* gives fee 4 and rem 6, and reverse_from_fee(4) contains 10 and not 9.
C14_ReverseFromFeeIsPreimage ==
    /\ (op = "Fee::reverse_from_fee" /\ FeeFromNew /\ obj.inner.ty = "Ceil") =>
         IF is_none(ret)
         THEN \A x \in U64 : unwrap(FeeCeil_apply(obj, x).ret).fee # arg
         ELSE \A x \in U64 :
                contains(unwrap(ret), x) <=>
                    (unwrap(FeeCeil_apply(obj, x).ret).fee = arg)
    /\ (op = "Fee::reverse_from_fee" /\ FeeFromNew /\ obj.inner.ty = "Floor") =>
         IF is_none(ret)
         THEN \A x \in U64 : unwrap(FeeFloor_apply(obj, x).ret).fee # arg
         ELSE \A x \in U64 :
                contains(unwrap(ret), x) <=>
                    (unwrap(FeeFloor_apply(obj, x).ret).fee = arg)
    /\ (obj.ty = "Fee" /\ obj.inner.ty = "Ceil"
          /\ obj.inner.inner.n = 1 /\ obj.inner.inner.d = 3) =>
         /\ (op = "Fee::apply" /\ arg = 10) => ret = Some(AftFee(6, 4))
         /\ (op = "Fee::reverse_from_fee" /\ arg = 4) =>
              /\ is_some(ret)
              /\ contains(unwrap(ret), 10)
              /\ ~contains(unwrap(ret), 9)

\* the ceiling fee 1/3 reversed from the fee 4
C14_Witness ==
    /\ op = "Fee::reverse_from_fee"
    /\ obj.inner.ty = "Ceil"
    /\ obj.inner.inner.n = 1
    /\ obj.inner.inner.d = 3
    /\ arg = 4
    /\ is_some(ret)

\* C15: one_minus_fee_ratio() of a Fee built by new with ratio n/d is
\* exactly ONE (1/1)
\* when n = 0 and otherwise (d - n)/d in the widened type with the same
\* denominator; d - n never underflows and result.n + n = d.
C15_OneMinusFeeRatio ==
    (op = "Fee::one_minus_fee_ratio" /\ FeeFromNew) =>
        LET r == obj.inner.inner
            Max == ArithMax(r.tn, r.td)
        IN  /\ r.n = 0 => ret = Some(Ratio_ONE(Max, Max))
            /\ r.n # 0 =>
                 /\ unwrap(ret).tn = Max
                 /\ unwrap(ret).td = Max
                 /\ unwrap(ret).d = r.d
                 /\ unwrap(ret).n = r.d - r.n
                 /\ unwrap(ret).n + r.n = r.d
            /\ \A t \in arith : ~OutOfRange(t)

\* the complement of a mixed-width fee strictly between zero and one
C15_Witness ==
    /\ op = "Fee::one_minus_fee_ratio"
    /\ obj.inner.inner.tn = "u32"
    /\ obj.inner.inner.td = "u64"
    /\ obj.inner.inner.n > 0
    /\ obj.inner.inner.n < obj.inner.inner.d
    /\ unwrap(ret).tn = "u64"
    /\ arith # {}

\* C16: BefFee(a).with_fee(v) and BefFee(a).with_rem(v) return None iff
\* v > a; otherwise with_fee returns AftFee{rem: a - v, fee: v} and with_rem
\* returns AftFee{rem: v, fee: a - v}.  Every AftFee produced by them, by
\* Fee::apply or by Default has rem + fee <= u64::MAX, so the addition of
\* bef_fee() does not overflow and bef_fee() equals a.
C16_BefFeeConstructors ==
    /\ op = "BefFee::with_fee" =>
         /\ is_none(ret) <=> arg > obj.inner
         /\ is_some(ret) =>
              /\ ret = Some(AftFee(obj.inner - arg, arg))
              /\ AftFee_bef_fee(unwrap(ret)).ret = obj.inner
    /\ op = "BefFee::with_rem" =>
         /\ is_none(ret) <=> arg > obj.inner
         /\ is_some(ret) =>
              /\ ret = Some(AftFee(arg, obj.inner - arg))
              /\ AftFee_bef_fee(unwrap(ret)).ret = obj.inner
    /\ (op = "Fee::apply" /\ is_some(ret)) =>
         AftFee_bef_fee(unwrap(ret)).ret = arg
    /\ (op \in {"BefFee::with_fee", "BefFee::with_rem", "Fee::apply",
                "AftFee::default"} /\ is_some(ret)) =>
         /\ unwrap(ret).rem + unwrap(ret).fee <= U64_MAX
         /\ AftFee_bef_fee(unwrap(ret)).ret = unwrap(ret).rem + unwrap(ret).fee
         /\ AftFee_bef_fee(unwrap(ret)).arith # {}
         /\ \A t \in AftFee_bef_fee(unwrap(ret)).arith : ~OutOfRange(t)

\* with_rem splitting u64::MAX into two non-zero parts
C16_Witness ==
    /\ op = "BefFee::with_rem"
    /\ obj.inner = U64_MAX
    /\ is_some(ret)
    /\ unwrap(ret).rem > 0
    /\ unwrap(ret).fee > 0

\* Ordering::reverse
Reversed(o) == CASE o = "Less" -> "Greater"
                 [] o = "Equal" -> "Equal"
                 [] o = "Greater" -> "Less"

\* the number of ratios of the same type that const_cmp puts strictly below r
RankOf == [r \in Ratios |->
             Cardinality({c \in Ratios : /\ c.tn = r.tn
                                         /\ c.td = r.td
                                         /\ Ratio_const_cmp(c, r).ret = "Less"})]

\* comparison of two integers
IntCmp(i, j) == IF i = j THEN "Equal" ELSE IF i < j THEN "Less" ELSE "Greater"

\* C17: const_cmp is a total order consistent with real-number value: two
\* zero ratios compare Equal, a zero ratio is Less than every non-zero one,
\* two non-zero ratios compare as a.n*b.d against b.n*a.d, and the relation
\* is reflexive, antisymmetric (cmp(a, b) is the reverse of cmp(b, a)) and
\* transitive.  Transitivity is stated through RankOf: const_cmp(a, b) is
\* the comparison of two integers that depend on a alone and on b alone,
\* which only a transitive relation can be.
C17_ConstCmpTotalOrder ==
    op = "Ratio::const_cmp" =>
        LET a == obj.inner
            b == arg
        IN  /\ (Ratio_is_zero(a) /\ Ratio_is_zero(b)) => ret = Some("Equal")
            /\ (Ratio_is_zero(a) /\ ~Ratio_is_zero(b)) => ret = Some("Less")
            /\ (~Ratio_is_zero(a) /\ Ratio_is_zero(b)) => ret = Some("Greater")
            /\ (~Ratio_is_zero(a) /\ ~Ratio_is_zero(b)) =>
                 ret = Some(IntCmp(a.n * b.d, b.n * a.d))
            /\ Ratio_const_cmp(a, a).ret = "Equal"
            /\ Ratio_const_cmp(b, a).ret = Reversed(unwrap(ret))
            /\ ret = Some(IntCmp(RankOf[a], RankOf[b]))

\* two non-zero ratios of mixed width, the smaller one with the larger
\* numerator
C17_Witness ==
    /\ op = "Ratio::const_cmp"
    /\ obj.inner.tn = "u32"
    /\ obj.inner.td = "u64"
    /\ obj.inner.d > U32_MAX
    /\ obj.inner.n > arg.n
    /\ arg.n > 0
    /\ arg.d > 0
    /\ ret = Some("Less")

\* C18: r1 == r2 iff lowest_form(r1) and lowest_form(r2) have the same
\* numerator and the same denominator; equal ratios write the same n and d
\* to the hasher; every zero encoding equals Ratio::ZERO and has lowest
\* form 0/0.
C18_HashEqLaw ==
    /\ op = "Ratio::const_cmp" =>
         LET a == obj.inner
             b == arg
         IN  /\ Ratio_eq(a, b) <=>
                  /\ Ratio_lowest_form(a).ret.n = Ratio_lowest_form(b).ret.n
                  /\ Ratio_lowest_form(a).ret.d = Ratio_lowest_form(b).ret.d
             /\ Ratio_eq(a, b) <=> (ret = Some("Equal"))
             /\ Ratio_eq(a, b) => Ratio_hash(a).ret = Ratio_hash(b).ret
    /\ op = "Ratio::hash" =>
         ret = Some(<<Ratio_lowest_form(obj.inner).ret.n,
                      Ratio_lowest_form(obj.inner).ret.d>>)
    /\ (obj.ty = "Ratio" /\ Ratio_is_zero(obj.inner)) =>
         /\ Ratio_eq(obj.inner, Ratio_ZERO(obj.inner.tn, obj.inner.td))
         /\ Ratio_lowest_form(obj.inner).ret.n = 0
         /\ Ratio_lowest_form(obj.inner).ret.d = 0
         /\ op = "Ratio::hash" => ret = Some(<<0, 0>>)

\* 2/4 compared with 1/2
C18_Witness ==
    /\ op = "Ratio::const_cmp"
    /\ obj.inner.n = 2
    /\ obj.inner.d = 4
    /\ arg.n = 1
    /\ arg.d = 2
    /\ ret = Some("Equal")
    /\ Ratio_hash(obj.inner).ret = <<1, 2>>

\* C19: lowest_form preserves ordering: r1.const_cmp(r2) equals
\* r1.lowest_form().const_cmp(r2.lowest_form()) for every pair of ratios of
\* the same type, zeros included.
C19_LowestFormPreservesOrder ==
    op = "Ratio::const_cmp" =>
        ret = Some(Ratio_const_cmp(Ratio_lowest_form(obj.inner).ret,
                                   Ratio_lowest_form(arg).ret).ret)

\* two distinct reducible ratios, the first the greater
C19_Witness ==
    /\ op = "Ratio::const_cmp"
    /\ ~Ratio_is_zero(obj.inner)
    /\ ~Ratio_is_zero(arg)
    /\ gcd(obj.inner.d, obj.inner.n) > 1
    /\ gcd(arg.d, arg.n) > 1
    /\ ret = Some("Greater")

\* the bounds reverse computes before narrowing them to u64, as integers:
\* Floor: ceil(dy / n) and the largest x with x*n < dy + d;
\* Ceil:  the smallest x with x*n > dy - d and floor(dy / n), and 0..=0 for
\*        an output of 0, which is answered before any bound is computed.
ComputedLower(mode, r, y) ==
    IF mode = "Floor"
    THEN CeilQ(r.d * y, r.n)
    ELSE IF y = 0 THEN 0 ELSE FloorQ(r.d * y - r.d, r.n) + 1

ComputedUpper(mode, r, y) ==
    IF mode = "Floor"
    THEN CeilQ(r.d * y + r.d, r.n) - 1
    ELSE FloorQ(r.d * y, r.n)

\* C20: saturation rule of reverse, both modes, non-zero ratio: the call
\* returns None exactly when the computed lower bound exceeds u64::MAX; when
\* only the computed upper bound exceeds u64::MAX the call succeeds with the
\* lower bound as start and u64::MAX as end; when neither exceeds, both
\* bounds are returned unmodified.
C20_ReverseSaturation ==
    (op \in {"Floor::reverse", "Ceil::reverse"} /\ ~Ratio_is_zero(obj.inner)) =>
        LET lo == ComputedLower(obj.ty, obj.inner, arg)
            hi == ComputedUpper(obj.ty, obj.inner, arg)
        IN  /\ is_none(ret) <=> lo > U64_MAX
            /\ (lo <= U64_MAX /\ hi > U64_MAX) =>
                 ret = Some(RangeInclusive(lo, U64_MAX))
            /\ (lo <= U64_MAX /\ hi <= U64_MAX) =>
                 ret = Some(RangeInclusive(lo, hi))

\* a ceiling reversal whose lower bound is past u64::MAX, so the call fails
\* although a saturated interval could have been formed
C20_Witness ==
    /\ op = "Ceil::reverse"
    /\ ~Ratio_is_zero(obj.inner)
    /\ arg > 0
    /\ ComputedLower("Ceil", obj.inner, arg) > U64_MAX
    /\ ComputedUpper("Ceil", obj.inner, arg) > U64_MAX
    /\ ret = None

\* C21: no intermediate arithmetic overflows or underflows: for every u64
\* amount or output and every ratio, the u128 intermediates x*n, d*y,
\* d*y + d, d*y - d (evaluated only when y >= 1) and min + 1 are in range,
\* no division or modulo has a zero divisor, and in const_cmp the cross
\* products a.n*b.d and b.n*a.d fit in the Ext type of the width pair.
\* Two operations are not among these intermediates: bef_fee's rem + fee
\* (C16 judges it for every AftFee the safe constructors produce) and the
\* d - n of one_minus_fee_ratio on a Fee that new does not return (C15
\* judges it for the Fees of new).
C21_NoOverflow ==
    /\ \A t \in arith :
         OutOfRange(t) =>
             \/ op = "AftFee::bef_fee" /\ t[1] = "add64"
             \/ /\ obj.ty = "Fee"
                /\ ~FeeFromNew
                /\ t = <<"sub", FeeRatio.d, FeeRatio.n>>
    /\ (op = "Ceil::reverse" /\ \E t \in arith : t[1] = "sub") => arg >= 1
    /\ (op = "Ratio::const_cmp" /\ ~Ratio_is_zero(obj.inner)
          /\ ~Ratio_is_zero(arg)) =>
         /\ obj.inner.n * arg.d <= TypeMax(ArithExt(obj.inner.tn, obj.inner.td))
         /\ arg.n * obj.inner.d <= TypeMax(ArithExt(obj.inner.tn, obj.inner.td))
         /\ arith # {}

\* the largest products: a ceiling reversal of u64::MAX by u64::MAX / 1
\* evaluating d*y, d*y - d and min + 1
C21_Witness ==
    /\ op = "Ceil::reverse"
    /\ obj.inner.d = U64_MAX
    /\ obj.inner.n = 1
    /\ arg = U64_MAX
    /\ <<"mul", U64_MAX, U64_MAX>> \in arith
    /\ <<"sub", U64_MAX * U64_MAX, U64_MAX>> \in arith
    /\ \E t \in arith : t[1] = "add"

\* C22: for Floor with n >= d >= 1, max_limit =
\* floor((u64::MAX + 1) * d / n), capped at u64::MAX, is the largest amount
\* the ratio applies to: apply(amt) succeeds for every amt in 0..=max_limit
\* and apply(max_limit + 1) is None whenever max_limit < u64::MAX.
C22_FloorApplyMaxLimit ==
    (op = "Floor::apply" /\ prop_gte_one(obj.inner)) =>
        /\ arg <= Floor_overflow_max_limit(obj.inner) => is_some(ret)
        /\ arg = Floor_overflow_max_limit(obj.inner) + 1 => is_none(ret)

\* C23: ceil-rounded reversal limits of the fee layer: for every Fee built by new with ratio n/d, (i) if the fee
\* is not zero, Fee<Ceil>.reverse_from_fee(f) is Some for every f in
\* 0..=min(floor(u64::MAX*n/d) + 1, u64::MAX); (ii) if the fee is not one,
\* Fee<Floor>.reverse_from_rem(r) is Some for every r in
\* 0..=min(floor(u64::MAX*(d-n)/d) + 1, u64::MAX); and each returns None for
\* its limit + 1 whenever the limit is below u64::MAX.
C23_CeilReversalLimits ==
    /\ (op = "Fee::reverse_from_fee" /\ FeeFromNew /\ obj.inner.ty = "Ceil"
          /\ ~Ratio_is_zero(FeeRatio)) =>
         /\ arg <= ceil_fee_max(FeeRatio.n, FeeRatio.d) => is_some(ret)
         /\ arg = ceil_fee_max(FeeRatio.n, FeeRatio.d) + 1 => is_none(ret)
    /\ (op = "Fee::reverse_from_rem" /\ FeeFromNew /\ obj.inner.ty = "Floor"
          /\ ~Ratio_is_one(FeeRatio)) =>
         /\ arg <= floor_rem_max(FeeRatio.n, FeeRatio.d) => is_some(ret)
         /\ arg = floor_rem_max(FeeRatio.n, FeeRatio.d) + 1 => is_none(ret)

\* C24: floor-rounded reversal limits: for every non-zero ratio n/d <= 1,
\* Floor.reverse(y) is Some for every y in 0..=floor(u64::MAX*n/d) and None
\* for floor(u64::MAX*n/d) + 1 when that is <= u64::MAX; at fee level,
\* Fee<Floor>.reverse_from_fee(f) is Some for every f <= floor(u64::MAX*n/d)
\* and None one above, and Fee<Ceil>.reverse_from_rem(r) is Some for every
\* r <= floor(u64::MAX*(d-n)/d) and None one above (whenever the limit is
\* below u64::MAX).  The fee-level limits are those of a Fee built by new.
C24_FloorReversalLimits ==
    /\ (op = "Floor::reverse" /\ prop_lte_one(obj.inner)) =>
         LET limit == FloorQ(U64_MAX * obj.inner.n, obj.inner.d)
         IN  /\ limit = Floor_rev_overflow_max_limit(obj.inner)
             /\ arg <= limit => is_some(ret)
             /\ arg = limit + 1 => is_none(ret)
    /\ (op = "Fee::reverse_from_fee" /\ FeeFromNew /\ obj.inner.ty = "Floor") =>
         LET limit == FloorQ(U64_MAX * FeeRatio.n, FeeRatio.d)
         IN  /\ limit = floor_fee_max(FeeRatio.n, FeeRatio.d)
             /\ arg <= limit => is_some(ret)
             /\ arg = limit + 1 => is_none(ret)
    /\ (op = "Fee::reverse_from_rem" /\ FeeFromNew /\ obj.inner.ty = "Ceil") =>
         LET limit == FloorQ(U64_MAX * (FeeRatio.d - FeeRatio.n), FeeRatio.d)
         IN  /\ limit = ceil_rem_max(FeeRatio.n, FeeRatio.d)
             /\ arg <= limit => is_some(ret)
             /\ arg = limit + 1 => is_none(ret)

\* a floor reversal one past the limit of a ratio that does not divide
\* u64::MAX evenly: the lower bound alone is past u64::MAX
C24_Witness ==
    /\ op = "Floor::reverse"
    /\ prop_lte_one(obj.inner)
    /\ (U64_MAX * obj.inner.n) % obj.inner.d # 0
    /\ arg = Floor_rev_overflow_max_limit(obj.inner) + 1
    /\ (obj.inner.d * arg) \div obj.inner.n = U64_MAX
    /\ ret = None

\* C25: reverse ceiling is at or below reverse floor: for the same ratio and
\* the same u64 output y, whenever Ceil.reverse(y) = Some(c) and
\* Floor.reverse(y) = Some(f), c.start <= f.start and c.end <= f.end; and
\* Ceil.reverse(y) is never None while Floor.reverse(y) is Some.
C25_ReverseCeilBelowFloor ==
    /\ (op = "Floor::reverse" /\ is_some(ret)) =>
         LET c == Ceil_reverse(Ceil(obj.inner), arg).ret
         IN  /\ is_some(c)
             /\ unwrap(c).start <= unwrap(ret).start
             /\ unwrap(c).end <= unwrap(ret).end
    /\ (op = "Ceil::reverse" /\ is_some(ret)) =>
         LET f == Floor_reverse(Floor(obj.inner), arg).ret
         IN  is_some(f) =>
               /\ unwrap(ret).start <= unwrap(f).start
               /\ unwrap(ret).end <= unwrap(f).end
    /\ (op = "Ceil::reverse" /\ is_none(ret)) =>
         is_none(Floor_reverse(Floor(obj.inner), arg).ret)

\* a ceiling reversal strictly below the floor reversal of the same output
\* at both ends, neither saturated
C25_Witness ==
    /\ op = "Ceil::reverse"
    /\ ~Ratio_is_zero(obj.inner)
    /\ is_some(ret)
    /\ is_some(Floor_reverse(Floor(obj.inner), arg).ret)
    /\ unwrap(ret).start < unwrap(Floor_reverse(Floor(obj.inner), arg).ret).start
    /\ unwrap(ret).end < unwrap(Floor_reverse(Floor(obj.inner), arg).ret).end
    /\ unwrap(Floor_reverse(Floor(obj.inner), arg).ret).end < U64_MAX

\* C26: for a ratio >= 1 (n >= d >= 1), in both rounding modes, and every
\* u64 amt for which apply(amt) = Some(y): reverse(y) = Some(lo..=hi) with
\* lo <= hi, amt - lo <= 1 and hi - amt <= 1 (neither difference below 0);
\* and reverse(0) is 0..=0.
C26_GteOnePinsInput ==
    /\ (op = "Floor::apply" /\ prop_gte_one(obj.inner) /\ is_some(ret)) =>
         LET rt == Floor_reverse(obj, unwrap(ret)).ret
         IN  /\ is_some(rt)
             /\ unwrap(rt).start <= unwrap(rt).end
             /\ arg - unwrap(rt).start \in {0, 1}
             /\ unwrap(rt).end - arg \in {0, 1}
    /\ (op = "Ceil::apply" /\ prop_gte_one(obj.inner) /\ is_some(ret)) =>
         LET rt == Ceil_reverse(obj, unwrap(ret)).ret
         IN  /\ is_some(rt)
             /\ unwrap(rt).start <= unwrap(rt).end
             /\ arg - unwrap(rt).start \in {0, 1}
             /\ unwrap(rt).end - arg \in {0, 1}
    /\ (op \in {"Floor::reverse", "Ceil::reverse"} /\ prop_gte_one(obj.inner)
          /\ arg = 0) =>
         ret = Some(RangeInclusive(0, 0))

\* a ceiling application of a ratio above one to the largest amount that
\* does not overflow, reversed to that amount
C26_Witness ==
    /\ op = "Ceil::apply"
    /\ obj.inner.n > obj.inner.d
    /\ obj.inner.d > 1
    /\ arg > 1
    /\ is_some(ret)
    /\ is_none(Ceil_apply(obj, arg + 1).ret)
    /\ Ceil_reverse(obj, unwrap(ret)).ret = Some(RangeInclusive(arg, arg))

\* C27: Fee<Ceil>.reverse_from_rem returns None whenever the held
\* fee ratio is >= 1.0 (for a fee built by new: whenever the ratio is one),
\* for every u64 rem.
C27_ReverseFromRemNoneAtOne ==
    (op = "Fee::reverse_from_rem" /\ obj.inner.ty = "Ceil"
       /\ FeeRatio.d # 0 /\ FeeRatio.n >= FeeRatio.d) =>
        ret = None

\* c divides v
Divides(c, v) == \E k \in 0..v : c * k = v

\* g is the greatest common divisor of a and b (0 when both are 0)
IsGcd(g, a, b) ==
    IF a = 0 /\ b = 0
    THEN g = 0
    ELSE /\ g > 0
         /\ Divides(g, a)
         /\ Divides(g, b)
         /\ \A c \in 1..U64_MAX : (Divides(c, a) /\ Divides(c, b)) => c <= g

\* what the finished call gcd(d, n) means for lowest_form of n/d
GcdReturned ==
    is_some(ret) =>
        LET a == arg.a
            b == arg.b
            g == unwrap(ret)
            r == Ratio("u64", "u64", b, a)
            lf == Ratio_lowest_form(r).ret
        IN  /\ g = gcd(a, b)
            /\ b = 0 => g = a
            /\ g = 0 <=> (a = 0 /\ b = 0)
            /\ IsGcd(g, a, b)
            /\ ~Ratio_is_zero(r) =>
                 /\ g > 0
                 /\ lf.n * g = r.n
                 /\ lf.d * g = r.d
                 /\ IsGcd(1, lf.n, lf.d)
                 /\ r.n * lf.d = r.d * lf.n

\* C28: the recursive gcd terminates for every pair (a, b) of the type,
\* because the second argument strictly decreases at every recursive step;
\* gcd(a, 0) = a; the result is 0 only when both arguments are 0; the
\* result divides both arguments and is their greatest common divisor, so
\* lowest_form never divides by zero and its output n', d' are coprime with
\* n*d' = d*n'.
C28_GcdTerminates ==
    /\ [][obj' # obj => obj'.inner.b < obj.inner.b]_vars
    /\ [](\A t \in arith : ~OutOfRange(t))
    /\ []GcdReturned
    /\ <>is_some(ret)

\* gcd(12, 8) returned 4 after two recursive calls: 8/12 reduces to 2/3
C28_Witness ==
    /\ op = "gcd"
    /\ arg = [a |-> 12, b |-> 8]
    /\ obj = GcdFrame(4, 0)
    /\ ret = Some(4)
    /\ Ratio_lowest_form(Ratio("u64", "u64", 8, 12)).ret.n = 2
    /\ Ratio_lowest_form(Ratio("u64", "u64", 8, 12)).ret.d = 3

\* C29: the special-case branches of fee reversal agree with the general
\* formula: for every ratio equal to one (n = d >= 1) and every u64 y,
\* Floor.reverse(y) and Ceil.reverse(y) both return exactly y..=y, so the
\* is_one shortcut of reverse_from_fee (fee..=fee) and the zero-fee shortcut
\* of reverse_from_rem (rem..=rem, against reversing through
\* one_minus_fee_ratio() = ONE in the opposite mode) return the range the
\* path without the shortcut returns.
C29_ShortcutsAgree ==
    /\ (op \in {"Floor::reverse", "Ceil::reverse"} /\ Ratio_is_one(obj.inner)) =>
         ret = Some(RangeInclusive(arg, arg))
    /\ (op = "Fee::reverse_from_fee" /\ Ratio_is_one(FeeRatio)) =>
         /\ ret = Some(RangeInclusive(arg, arg))
         /\ ret = IF obj.inner.ty = "Ceil"
                  THEN Ceil_reverse(obj.inner, arg).ret
                  ELSE Floor_reverse(obj.inner, arg).ret
    /\ (op = "Fee::reverse_from_rem" /\ Ratio_is_zero(FeeRatio)) =>
         /\ ret = Some(RangeInclusive(arg, arg))
         /\ IF obj.inner.ty = "Ceil"
            THEN /\ Ratio_is_one(FeeCeil_one_minus_fee_ratio(obj).ret)
                 /\ ret = Floor_reverse(
                            Floor(FeeCeil_one_minus_fee_ratio(obj).ret), arg).ret
            ELSE /\ Ratio_is_one(FeeFloor_one_minus_fee_ratio(obj).ret)
                 /\ ret = Ceil_reverse(
                            Ceil(FeeFloor_one_minus_fee_ratio(obj).ret), arg).ret

\* a ceiling fee of d/d with d > 1 reversing the fee u64::MAX through the
\* shortcut
C29_Witness ==
    /\ op = "Fee::reverse_from_fee"
    /\ obj.inner.ty = "Ceil"
    /\ FeeRatio.n = FeeRatio.d
    /\ FeeRatio.d > 1
    /\ arg = U64_MAX
    /\ ret = Some(RangeInclusive(U64_MAX, U64_MAX))

\* apply of the wrapper under use
ApplyOf(x) == IF obj.ty = "Floor" THEN Floor_apply(obj, x).ret
                                  ELSE Ceil_apply(obj, x).ret

\* reverse of the wrapper under use
ReverseOf(y) == IF obj.ty = "Floor" THEN Floor_reverse(obj, y).ret
                                    ELSE Ceil_reverse(obj, y).ret

\* C30: for a fixed ratio and rounding mode, apply is monotone
\* non-decreasing in the amount: for u64 x1 <= x2, if apply(x2) succeeds
\* then apply(x1) succeeds and apply(x1) <= apply(x2); hence the preimage of
\* an output is a contiguous interval, and the ranges returned by reverse
\* for two outputs y1 < y2 never overlap: every element of reverse(y1) is
\* below every element of reverse(y2).
C30_ApplyMonotone ==
    /\ (op \in {"Floor::apply", "Ceil::apply"} /\ is_some(ret)) =>
         \A x1 \in 0..arg :
            /\ is_some(ApplyOf(x1))
            /\ unwrap(ApplyOf(x1)) <= unwrap(ret)
            /\ ApplyOf(x1) = ret =>
                 \A x \in x1..arg : ApplyOf(x) = ret
    /\ (op \in {"Floor::reverse", "Ceil::reverse"} /\ is_some(ret)) =>
         \A y1 \in 0..(arg - 1) :
            LET r1 == ReverseOf(y1)
            IN  (/\ is_some(r1)
                 /\ unwrap(r1).start <= unwrap(r1).end
                 /\ unwrap(ret).start <= unwrap(ret).end) =>
                   unwrap(r1).end < unwrap(ret).start

\* a ceiling reversal of an output above 1 by a ratio below one: several
\* amounts map to it, and the range of the output just below ends right
\* before it starts
C30_Witness ==
    /\ op = "Ceil::reverse"
    /\ obj.inner.n > 1
    /\ obj.inner.n < obj.inner.d
    /\ arg > 1
    /\ is_some(ret)
    /\ unwrap(ret).start < unwrap(ret).end
    /\ unwrap(ret).end < U64_MAX
    /\ unwrap(Ceil_reverse(obj, arg - 1).ret).end + 1 = unwrap(ret).start

====
